---- MODULE Spec2Model ----
(***************************************************************************)
(* Model of the forwarding-rule audit stores: the rule and filter          *)
(* repositories of "Assignment 3/repository.py" (SQLModel, CSV, in-memory) *)
(* and of "Assignment 5/forwarding_rules/repository.py" (Django, over the  *)
(* models of "Final/forwarding_rules/models.py"), and the importers        *)
(* store_autoforwarding_data of Assignment 3 and Final, and the report     *)
(* tasks of "Final/forwarding_rules/tasks.py" with their endpoints.        *)
(***************************************************************************)
EXTENDS Integers, Sequences, FiniteSets, TLC

(* ------------------------------ bounds --------------------------------- *)
\* largest rule identifier a backend may hand out
MaxRuleId == 2
\* largest filter identifier a backend may hand out
MaxFilterId == 2
\* longest record list given to one importer run
MaxRecords == 2
\* number of calls made on the stores in one run
MaxCalls == 3

(* --------------------------- value domains ----------------------------- *)
\* Python None (optional text fields, Optional[int] arguments)
None == "None"

\* Rule emails: a base address, a case variant of it, and an address that
\* contains the base address as a substring.
Emails == {"u1", "U1", "u10"}

Backends == {"sqlmodel", "csv", "memory", "django"}

(* --------------------------- text helpers ------------------------------ *)
\* str.lower() on one character of the alphabet used by Emails and by the
\* report titles
LowerChar(c) ==
  CASE c = "U" -> "u"
    [] c = "A" -> "a"
    [] c = "E" -> "e"
    [] c = "F" -> "f"
    [] c = "R" -> "r"
    [] OTHER -> c

\* str.lower()
RECURSIVE Lower(_)
Lower(s) ==
  IF Len(s) = 0 THEN s
  ELSE LowerChar(SubSeq(s, 1, 1)) \o Lower(SubSeq(s, 2, Len(s)))

\* Python `needle in hay` on strings
Contains(hay, needle) ==
  \E i \in 1..(Len(hay) - Len(needle) + 1) :
    SubSeq(hay, i, i + Len(needle) - 1) = needle

\* case-insensitive substring match: email.lower() in rule.email.lower(),
\* SQL LIKE '%email%' (SQLite, ASCII), Django email__icontains
IContains(hay, needle) == Contains(Lower(hay), Lower(needle))

(* -------------------------- sequence helpers --------------------------- *)
Ids(s) == {s[i].id : i \in DOMAIN s}

MaxOf(S) == CHOOSE m \in S : \A x \in S : x <= m

\* new id = max(existing ids) + 1, or 1 for an empty table/file
MaxPlusOne(s) == IF s = <<>> THEN 1 ELSE MaxOf(Ids(s)) + 1

(* ------------------------------ state ---------------------------------- *)
VARIABLES
  backend,        \* repo_type given to create_repositories
  filters_file,   \* csv only: the filters_file given to create_repositories
  rules,          \* stored rules, in storage order
  filters,        \* stored filters, in storage order
  next_rule_id,   \* memory: next_rule_id; django: AUTOINCREMENT sequence
  next_filter_id, \* memory: next_filter_id; django: AUTOINCREMENT sequence
  last,           \* the last call: operation, arguments and outcome
  calls,          \* number of calls made so far
  stores,         \* lockstep run: the store contents of each Assignment 3 backend
  outcomes,       \* lockstep run: what the last call returned in each backend
  procs,          \* concurrent run: each caller's call, position and local copy
  queue,          \* report jobs: the task messages waiting at the broker
  jobs,           \* report jobs: the task runs the worker has started
  files,          \* report jobs: the files of settings.REPORTS_DIR
  clock           \* report jobs: datetime.now(), in seconds

vars == <<backend, filters_file, rules, filters, next_rule_id, next_filter_id,
          last, calls, stores, outcomes, procs, queue, jobs, files, clock>>

\* the default of CSVForwardingFilterRepository.__init__
DefaultFiltersFile == "forwarding_filters.csv"

FiltersFiles == {DefaultFiltersFile, "other_filters.csv"}

\* the mutable store contents, passed through the repository operators
Db == [rules |-> rules, filters |-> filters,
       next_rule_id |-> next_rule_id, next_filter_id |-> next_filter_id]

(* ----------------------- CSV text round trip --------------------------- *)
\* csv.DictWriter writes None as the empty cell; csv.DictReader reads every
\* cell back as a string, so None comes back as ''.
CsvCell(v) == IF v = None THEN "" ELSE v

\* a rule dict after save_rules followed by load_rules: id and
\* has_forwarding_filters are converted back, every other cell stays text
CsvRule(r) ==
  [id |-> r.id,
   email |-> CsvCell(r.email),
   name |-> CsvCell(r.name),
   forwarding_email |-> CsvCell(r.forwarding_email),
   disposition |-> CsvCell(r.disposition),
   has_forwarding_filters |-> r.has_forwarding_filters,
   error |-> CsvCell(r.error),
   investigation_note |-> CsvCell(r.investigation_note)]

\* a filter dict after save_filters followed by load_filters
CsvFilter(f) ==
  [id |-> f.id, forwarding_id |-> f.forwarding_id,
   email_address |-> CsvCell(f.email_address),
   created_at |-> CsvCell(f.created_at)]

(* --------------------------- rule helpers ------------------------------ *)
\* rule_dict / AutoForwarding(**rule_dict) with the assigned id
MkRule(id, d) ==
  [id |-> id, email |-> d.email, name |-> d.name,
   forwarding_email |-> d.forwarding_email, disposition |-> d.disposition,
   has_forwarding_filters |-> d.has_forwarding_filters,
   error |-> d.error, investigation_note |-> d.investigation_note]

\* a faulty update that replaces the rule: fields missing from the updates
\* are reset to None
ApplyUpdates_replaces(r, u) ==
  [f \in DOMAIN r |-> IF f \in DOMAIN u THEN u[f]
                      ELSE IF f \in {"id", "email", "name", "has_forwarding_filters"}
                      THEN r[f] ELSE None]

\* for key, value in updates.items(): setattr(rule, key, value)
ApplyUpdates(r, u) ==
  [f \in DOMAIN r |-> IF f \in DOMAIN u THEN u[f] ELSE r[f]]

\* the fieldnames of the rules file, which are also the fields of AutoForwarding
Columns == {"id", "email", "name", "forwarding_email", "disposition",
            "has_forwarding_filters", "error", "investigation_note"}

HasRule(rs, id) == \E i \in DOMAIN rs : rs[i].id = id

\* position of the first rule with this id
RuleIndex(rs, id) == CHOOSE i \in DOMAIN rs :
  rs[i].id = id /\ \A j \in 1..(i - 1) : rs[j].id /= id

\* the UNIQUE constraint on autoforwarding.email: another row has the email
EmailTaken(rs, email, exceptId) ==
  \E i \in DOMAIN rs : rs[i].email = email /\ rs[i].id /= exceptId

Result(db, res, id) == [db |-> db, res |-> res, id |-> id]

(* ------------------- RuleStore: create_rule ---------------------------- *)
\* session.add; commit. The UNIQUE index on email rejects a duplicate
\* (IntegrityError, nothing committed); the id is SQLite's rowid: max + 1.
SQLModel_create_rule(db, d) ==
  IF EmailTaken(db.rules, d.email, 0)
  THEN Result(db, "IntegrityError", 0)
  ELSE LET id == MaxPlusOne(db.rules)
       IN Result([db EXCEPT !.rules = Append(@, MkRule(id, d))], "ok", id)

\* load_rules; new_id = max + 1; append; save_rules. No uniqueness check.
CSV_create_rule(db, d) ==
  LET id == MaxPlusOne(db.rules)
  IN Result([db EXCEPT !.rules = Append(@, CsvRule(MkRule(id, d)))], "ok", id)

\* append with self.next_rule_id; next_rule_id += 1. No uniqueness check.
InMemory_create_rule(db, d) ==
  Result([db EXCEPT !.rules = Append(@, MkRule(db.next_rule_id, d)),
                    !.next_rule_id = @ + 1], "ok", db.next_rule_id)

\* AutoForwarding.objects.create(**rule_data): unique=True on email rejects a
\* duplicate (IntegrityError); the id comes from the AUTOINCREMENT sequence.
Django_create_rule(db, d) ==
  IF EmailTaken(db.rules, d.email, 0)
  THEN Result(db, "IntegrityError", 0)
  ELSE Result([db EXCEPT !.rules = Append(@, MkRule(db.next_rule_id, d)),
                         !.next_rule_id = @ + 1], "ok", db.next_rule_id)

create_rule(be, db, d) ==
  CASE be = "sqlmodel" -> SQLModel_create_rule(db, d)
    [] be = "csv"      -> CSV_create_rule(db, d)
    [] be = "memory"   -> InMemory_create_rule(db, d)
    [] be = "django"   -> Django_create_rule(db, d)

(* ------------------- RuleStore: update_rule ---------------------------- *)
\* session.get; setattr each key (a key that is not a field of the model
\* raises ValueError and the session is never committed); commit (UNIQUE
\* email enforced)
SQLModel_update_rule(db, id, u) ==
  IF ~HasRule(db.rules, id) THEN Result(db, "None", 0)
  ELSE LET i == RuleIndex(db.rules, id)
           r == ApplyUpdates(db.rules[i], u)
       IN IF ~(DOMAIN u \subseteq Columns) THEN Result(db, "ValueError", 0)
          ELSE IF EmailTaken(db.rules, r.email, id)
          THEN Result(db, "IntegrityError", 0)
          ELSE Result([db EXCEPT !.rules[i] = r], "ok", id)

\* load_rules; first row with the id gets the keys assigned; save_rules.
\* save_rules opens the file for writing (truncating it), writes the header
\* and then row after row; DictWriter.writerow raises ValueError on a row
\* with a key that is not a fieldname, and the file keeps only the rows
\* written before it.
CSV_update_rule(db, id, u) ==
  IF ~HasRule(db.rules, id) THEN Result(db, "None", 0)
  ELSE LET i == RuleIndex(db.rules, id)
       IN IF ~(DOMAIN u \subseteq Columns)
          THEN Result([db EXCEPT !.rules = SubSeq(@, 1, i - 1)], "ValueError", 0)
          ELSE Result([db EXCEPT !.rules[i] = CsvRule(ApplyUpdates(@, u))], "ok", id)

\* first rule with the id gets setattr for each key (a key that is not a
\* field of the model raises ValueError)
InMemory_update_rule(db, id, u) ==
  IF ~HasRule(db.rules, id) THEN Result(db, "None", 0)
  ELSE LET i == RuleIndex(db.rules, id)
       IN IF ~(DOMAIN u \subseteq Columns) THEN Result(db, "ValueError", 0)
          ELSE Result([db EXCEPT !.rules[i] = ApplyUpdates(@, u)], "ok", id)

\* objects.get(id); setattr each key (a key that is not a model field
\* becomes a plain attribute that save() ignores); rule.save() (unique email
\* enforced)
Django_update_rule(db, id, u) ==
  IF ~HasRule(db.rules, id) THEN Result(db, "None", 0)
  ELSE LET i == RuleIndex(db.rules, id)
           r == ApplyUpdates(db.rules[i], u)
       IN IF EmailTaken(db.rules, r.email, id)
          THEN Result(db, "IntegrityError", 0)
          ELSE Result([db EXCEPT !.rules[i] = r], "ok", id)

update_rule(be, db, id, u) ==
  CASE be = "sqlmodel" -> SQLModel_update_rule(db, id, u)
    [] be = "csv"      -> CSV_update_rule(db, id, u)
    [] be = "memory"   -> InMemory_update_rule(db, id, u)
    [] be = "django"   -> Django_update_rule(db, id, u)

(* ---------------- FilterStore: delete_filters_for_rule ----------------- *)
FiltersOf(fs, id) == SelectSeq(fs, LAMBDA f : f.forwarding_id = id)

WithoutFiltersOf(fs, id) == SelectSeq(fs, LAMBDA f : f.forwarding_id /= id)

\* deletes every filter of the rule, commits and returns True
SQLModel_delete_filters_for_rule(db, id) ==
  Result([db EXCEPT !.filters = WithoutFiltersOf(@, id)], "True", id)

\* rewrites the file without the rule's filters when there were any
CSV_delete_filters_for_rule(db, id) ==
  IF FiltersOf(db.filters, id) /= <<>>
  THEN Result([db EXCEPT !.filters = WithoutFiltersOf(@, id)], "True", id)
  ELSE Result(db, "False", id)

InMemory_delete_filters_for_rule(db, id) ==
  Result([db EXCEPT !.filters = WithoutFiltersOf(@, id)],
         IF FiltersOf(db.filters, id) /= <<>> THEN "True" ELSE "False", id)

\* mutant of Django_delete_filters_for_rule: the filters are deleted but the
\* owning rule's flag is left as it was
Django_delete_filters_for_rule_keeps_flag(db, id) ==
  Result([db EXCEPT !.filters = WithoutFiltersOf(@, id)],
         IF FiltersOf(db.filters, id) /= <<>> THEN "True" ELSE "False", id)

\* filters.delete(); then the rule, when it exists, gets
\* has_forwarding_filters = False and is saved
Django_delete_filters_for_rule(db, id) ==
  LET fs == WithoutFiltersOf(db.filters, id)
      rs == IF HasRule(db.rules, id)
            THEN [db.rules EXCEPT ![RuleIndex(db.rules, id)].has_forwarding_filters = FALSE]
            ELSE db.rules
  IN Result([db EXCEPT !.filters = fs, !.rules = rs],
            IF FiltersOf(db.filters, id) /= <<>> THEN "True" ELSE "False", id)

delete_filters_for_rule(be, db, id) ==
  CASE be = "sqlmodel" -> SQLModel_delete_filters_for_rule(db, id)
    [] be = "csv"      -> CSV_delete_filters_for_rule(db, id)
    [] be = "memory"   -> InMemory_delete_filters_for_rule(db, id)
    [] be = "django"   -> Django_delete_filters_for_rule(db, id)

(* ------------------- RuleStore: delete_rule ---------------------------- *)
WithoutRule(rs, id) == SelectSeq(rs, LAMBDA r : r.id /= id)

\* session.delete(db_rule); commit. The filter table is not touched (SQLite
\* does not enforce the foreign key unless PRAGMA foreign_keys is set).
SQLModel_delete_rule(db, id) ==
  IF ~HasRule(db.rules, id) THEN Result(db, "False", id)
  ELSE Result([db EXCEPT !.rules = WithoutRule(@, id)], "True", id)

\* rewrites the rules file; then CSVForwardingFilterRepository() -- the
\* repository over the DEFAULT filters file -- deletes the rule's filters.
\* ff is the filters file this store was created with.
CSV_delete_rule(db, id, ff) ==
  IF ~HasRule(db.rules, id) THEN Result(db, "False", id)
  ELSE LET d1 == [db EXCEPT !.rules = WithoutRule(@, id)]
       IN IF ff = DefaultFiltersFile
          THEN Result(CSV_delete_filters_for_rule(d1, id).db, "True", id)
          ELSE Result(d1, "True", id)

\* filters the list; self.filter_repo (set by create_repositories) deletes
\* the rule's filters
InMemory_delete_rule(db, id) ==
  IF ~HasRule(db.rules, id) THEN Result(db, "False", id)
  ELSE Result(InMemory_delete_filters_for_rule(
                [db EXCEPT !.rules = WithoutRule(@, id)], id).db, "True", id)

\* rule.delete(): on_delete=CASCADE removes the rule's filter with it
Django_delete_rule(db, id) ==
  IF ~HasRule(db.rules, id) THEN Result(db, "False", id)
  ELSE Result([db EXCEPT !.rules = WithoutRule(@, id),
                         !.filters = WithoutFiltersOf(@, id)], "True", id)

delete_rule(be, db, id, ff) ==
  CASE be = "sqlmodel" -> SQLModel_delete_rule(db, id)
    [] be = "csv"      -> CSV_delete_rule(db, id, ff)
    [] be = "memory"   -> InMemory_delete_rule(db, id)
    [] be = "django"   -> Django_delete_rule(db, id)

(* ------------------- FilterStore: create_filter ------------------------ *)
\* the absent forwarding_id (filter_data.pop('forwarding_id', None))
NoId == -1

\* ForwardingFilter of Assignment 3
MkLegacyFilter(id, fd) ==
  [id |-> id, forwarding_id |-> fd.forwarding_id,
   email_address |-> fd.email_address, created_at |-> fd.created_at]

\* ForwardingFilter of Final/forwarding_rules/models.py
MkFilter(id, fd) ==
  [id |-> id, forwarding_id |-> fd.forwarding_id,
   criteria |-> fd.criteria, action |-> fd.action, created_at |-> fd.created_at]

\* session.add; commit: the row is inserted whatever forwarding_id is
SQLModel_create_filter(db, fd) ==
  LET id == MaxPlusOne(db.filters)
  IN Result([db EXCEPT !.filters = Append(@, MkLegacyFilter(id, fd))], "ok", id)

\* load_filters; new_id = max + 1; append; save_filters
CSV_create_filter(db, fd) ==
  LET id == MaxPlusOne(db.filters)
  IN Result([db EXCEPT !.filters = Append(@, CsvFilter(MkLegacyFilter(id, fd)))],
            "ok", id)

\* append with self.next_filter_id; next_filter_id += 1
InMemory_create_filter(db, fd) ==
  Result([db EXCEPT !.filters = Append(@, MkLegacyFilter(db.next_filter_id, fd)),
                    !.next_filter_id = @ + 1], "ok", db.next_filter_id)

\* `if forwarding_id:` looks the rule up (ValueError when it is missing);
\* a falsy id skips the lookup and objects.create then violates NOT NULL on
\* forwarding_id; a second filter for the same rule violates the UNIQUE
\* constraint of the OneToOneField. On success the rule is flagged and saved.
Django_create_filter(db, fd) ==
  LET rid == fd.forwarding_id
  IN IF rid = NoId \/ rid = 0 THEN Result(db, "IntegrityError", 0)
     ELSE IF ~HasRule(db.rules, rid) THEN Result(db, "ValueError", 0)
     ELSE IF FiltersOf(db.filters, rid) /= <<>> THEN Result(db, "IntegrityError", 0)
     ELSE Result(
       [db EXCEPT !.filters = Append(@, MkFilter(db.next_filter_id, fd)),
                  !.next_filter_id = @ + 1,
                  !.rules[RuleIndex(db.rules, rid)].has_forwarding_filters = TRUE],
       "ok", db.next_filter_id)

create_filter(be, db, fd) ==
  CASE be = "sqlmodel" -> SQLModel_create_filter(db, fd)
    [] be = "csv"      -> CSV_create_filter(db, fd)
    [] be = "memory"   -> InMemory_create_filter(db, fd)
    [] be = "django"   -> Django_create_filter(db, fd)

\* get_filters_for_rule: the rule's filters, in storage order
get_filters_for_rule(db, id) == FiltersOf(db.filters, id)

\* get_rule_by_id: the first rule with the id, if any
get_rule_by_id(db, id) ==
  IF HasRule(db.rules, id) THEN <<db.rules[RuleIndex(db.rules, id)]>> ELSE <<>>

(* ------------------- RuleStore: search_rules --------------------------- *)
\* has_filters is "None" (no constraint), "True" or "False"; an empty or
\* absent email is falsy and imposes no constraint (`if email:`).
FlagMatches(r, has_filters) ==
  \/ has_filters = "None"
  \/ has_filters = "True" /\ r.has_forwarding_filters
  \/ has_filters = "False" /\ ~r.has_forwarding_filters

\* SQL `s LIKE p` on lower-cased text: % matches any run of characters and
\* _ matches any one character
RECURSIVE LikeMatch(_, _)
LikeMatch(p, s) ==
  IF Len(p) = 0 THEN Len(s) = 0
  ELSE IF SubSeq(p, 1, 1) = "%"
  THEN \/ LikeMatch(SubSeq(p, 2, Len(p)), s)
       \/ Len(s) > 0 /\ LikeMatch(p, SubSeq(s, 2, Len(s)))
  ELSE /\ Len(s) > 0
       /\ SubSeq(p, 1, 1) \in {"_", SubSeq(s, 1, 1)}
       /\ LikeMatch(SubSeq(p, 2, Len(p)), SubSeq(s, 2, Len(s)))

\* AutoForwarding.email.contains(email): WHERE email LIKE '%' || email || '%'
\* with the wildcards of the argument left unescaped (SQLite LIKE ignores
\* ASCII case)
SQLModel_search_rules(db, email, has_filters) ==
  SelectSeq(db.rules, LAMBDA r :
    (email = "" \/ LikeMatch("%" \o Lower(email) \o "%", Lower(r.email)))
    /\ FlagMatches(r, has_filters))

\* email.lower() in rule['email'].lower()
CSV_search_rules(db, email, has_filters) ==
  SelectSeq(db.rules, LAMBDA r :
    ~(email /= "" /\ ~Contains(Lower(r.email), Lower(email)))
    /\ FlagMatches(r, has_filters))

\* email.lower() in rule.email.lower()
InMemory_search_rules(db, email, has_filters) ==
  SelectSeq(db.rules, LAMBDA r :
    ~(email /= "" /\ ~Contains(Lower(r.email), Lower(email)))
    /\ FlagMatches(r, has_filters))

\* queryset.filter(email__icontains=email)
Django_search_rules(db, email, has_filters) ==
  SelectSeq(db.rules, LAMBDA r :
    (email = "" \/ IContains(r.email, email)) /\ FlagMatches(r, has_filters))

search_rules(be, db, email, has_filters) ==
  CASE be = "sqlmodel" -> SQLModel_search_rules(db, email, has_filters)
    [] be = "csv"      -> CSV_search_rules(db, email, has_filters)
    [] be = "memory"   -> InMemory_search_rules(db, email, has_filters)
    [] be = "django"   -> Django_search_rules(db, email, has_filters)

(* ------------------- RuleStore: get_all_rules -------------------------- *)
\* Python s[a:b] on a list: negative indices count from the end, indices
\* beyond either end are clamped
PyIndex(n, i) == IF i < 0 THEN (IF i + n < 0 THEN 0 ELSE i + n)
                 ELSE (IF i > n THEN n ELSE i)

PySlice(s, a, b) == SubSeq(s, PyIndex(Len(s), a) + 1, PyIndex(Len(s), b))

\* SQLite LIMIT limit OFFSET skip: a negative OFFSET counts as 0, a negative
\* LIMIT means no limit
SqlLimitOffset(s, skip, limit) ==
  LET from == IF skip < 0 THEN 0 ELSE skip
      to == IF limit < 0 THEN Len(s)
            ELSE IF from + limit > Len(s) THEN Len(s) ELSE from + limit
  IN SubSeq(s, from + 1, to)

\* select(AutoForwarding).offset(skip).limit(limit)
SQLModel_get_all_rules(db, skip, limit) ==
  [res |-> "ok", rows |-> SqlLimitOffset(db.rules, skip, limit)]

\* rules[skip:skip + limit] on the loaded rows
CSV_get_all_rules(db, skip, limit) ==
  [res |-> "ok", rows |-> PySlice(db.rules, skip, skip + limit)]

\* self.rules[skip:skip + limit]
InMemory_get_all_rules(db, skip, limit) ==
  [res |-> "ok", rows |-> PySlice(db.rules, skip, skip + limit)]

\* AutoForwarding.objects.all()[skip:skip + limit]: QuerySet.__getitem__
\* rejects a negative start or stop ("Negative indexing is not supported":
\* ValueError, AssertionError before Django 4.2);
\* otherwise the slice becomes LIMIT (stop - start) OFFSET start, and an
\* a stop at or below the start gives the empty queryset (set_limits clamps
\* low_mark to high_mark)
Django_get_all_rules(db, skip, limit) ==
  IF skip < 0 \/ skip + limit < 0 THEN [res |-> "ValueError", rows |-> <<>>]
  ELSE IF limit <= 0 THEN [res |-> "ok", rows |-> <<>>]
  ELSE [res |-> "ok", rows |-> SqlLimitOffset(db.rules, skip, limit)]

get_all_rules(be, db, skip, limit) ==
  CASE be = "sqlmodel" -> SQLModel_get_all_rules(db, skip, limit)
    [] be = "csv"      -> CSV_get_all_rules(db, skip, limit)
    [] be = "memory"   -> InMemory_get_all_rules(db, skip, limit)
    [] be = "django"   -> Django_get_all_rules(db, skip, limit)

(* ------------------- RuleStore: get_statistics ------------------------- *)
\* Python truthiness of an Optional[str]
Truthy(v) == v /= None /\ v /= ""

MkStatistics(total, active, with_filters, with_errors, total_filters) ==
  [total_rules |-> total, active_forwarding |-> active,
   rules_with_filters |-> with_filters, rules_with_errors |-> with_errors,
   total_filters |-> total_filters]

\* counts of rows WHERE column IS NOT NULL; the filters come from a filter
\* repository on the same engine
SQLModel_get_statistics(db) ==
  MkStatistics(Len(db.rules),
    Len(SelectSeq(db.rules, LAMBDA r : r.forwarding_email /= None)),
    Len(SelectSeq(db.rules, LAMBDA r : r.has_forwarding_filters)),
    Len(SelectSeq(db.rules, LAMBDA r : r.error /= None)),
    Len(db.filters))

\* truthiness of the loaded cells; the filters are counted by
\* CSVForwardingFilterRepository(), the repository over the DEFAULT filters
\* file, which holds nothing when the store was created with another file
CSV_get_statistics(db, ff) ==
  MkStatistics(Len(db.rules),
    Len(SelectSeq(db.rules, LAMBDA r : Truthy(r.forwarding_email))),
    Len(SelectSeq(db.rules, LAMBDA r : r.has_forwarding_filters)),
    Len(SelectSeq(db.rules, LAMBDA r : Truthy(r.error))),
    IF ff = DefaultFiltersFile THEN Len(db.filters) ELSE 0)

\* truthiness of the attributes; self.filter_repo counts the filters
InMemory_get_statistics(db) ==
  MkStatistics(Len(db.rules),
    Len(SelectSeq(db.rules, LAMBDA r : Truthy(r.forwarding_email))),
    Len(SelectSeq(db.rules, LAMBDA r : r.has_forwarding_filters)),
    Len(SelectSeq(db.rules, LAMBDA r : Truthy(r.error))),
    Len(db.filters))

\* exclude(forwarding_email__isnull=True) / exclude(error__isnull=True)
Django_get_statistics(db) ==
  MkStatistics(Len(db.rules),
    Len(SelectSeq(db.rules, LAMBDA r : r.forwarding_email /= None)),
    Len(SelectSeq(db.rules, LAMBDA r : r.has_forwarding_filters)),
    Len(SelectSeq(db.rules, LAMBDA r : r.error /= None)),
    Len(db.filters))

get_statistics(be, db, ff) ==
  CASE be = "sqlmodel" -> SQLModel_get_statistics(db)
    [] be = "csv"      -> CSV_get_statistics(db, ff)
    [] be = "memory"   -> InMemory_get_statistics(db)
    [] be = "django"   -> Django_get_statistics(db)

(* -------------------------- Importer ----------------------------------- *)
\* Assignment 3: the investigation note gets the repository type appended
TaggedNote(note, repo_type) ==
  IF note /= None /\ note /= ""
  THEN note \o " [Repository: " \o repo_type \o "]"
  ELSE "[Repository: " \o repo_type \o "]"

\* Assignment 3: rule_data built from one user record
Legacy_rule_data(user, repo_type) ==
  [email |-> user.email,
   name |-> user.name,
   forwarding_email |-> IF user.autoForwarding.enabled
                        THEN user.autoForwarding.emailAddress ELSE None,
   disposition |-> user.autoForwarding.disposition,
   has_forwarding_filters |-> user.forwardingFilters /= <<>>,
   error |-> user.error,
   investigation_note |-> TaggedNote(user.investigation_note, repo_type)]

\* for filter_item in user["forwardingFilters"]: filter_repo.create_filter(...)
RECURSIVE Legacy_create_filters(_, _, _, _)
Legacy_create_filters(be, db, rule_id, items) ==
  IF items = <<>> THEN db
  ELSE Legacy_create_filters(be,
         create_filter(be, db,
           [forwarding_id |-> rule_id,
            email_address |-> Head(items).emailAddress,
            created_at |-> Head(items).createdAt]).db,
         rule_id, Tail(items))

\* Assignment 3, one pass of the loop body of store_autoforwarding_data
Legacy_store_record(be, db, user, repo_type) ==
  LET rule_data == Legacy_rule_data(user, repo_type)
      existing_rules == search_rules(be, db, user.email, "None")
      r1 == IF existing_rules /= <<>>
            THEN update_rule(be, db, existing_rules[1].id, rule_data)
            ELSE create_rule(be, db, rule_data)
      rule_id == IF existing_rules /= <<>> THEN existing_rules[1].id ELSE r1.id
  IN IF r1.res /= "ok" THEN Result(db, r1.res, 0)
     ELSE Result(
       Legacy_create_filters(be,
         delete_filters_for_rule(be, r1.db, rule_id).db,
         rule_id, user.forwardingFilters),
       "ok", rule_id)

\* Final: rule_data built from one user record
Final_rule_data(user) ==
  [email |-> user.email,
   name |-> user.name,
   forwarding_email |-> user.forwarding_email,
   disposition |-> user.disposition,
   has_forwarding_filters |-> user.has_forwarding_filters,
   error |-> user.error,
   investigation_note |-> user.investigation_note]

\* Final, one pass of the loop body of store_autoforwarding_data; user.filter
\* is <<>> when the record has no "filter" key, else <<filter_data>>
Final_store_record(be, db, user) ==
  LET rule_data == Final_rule_data(user)
      existing_rules == search_rules(be, db, user.email, "None")
      r1 == IF existing_rules /= <<>>
            THEN update_rule(be, db, existing_rules[1].id, rule_data)
            ELSE create_rule(be, db, rule_data)
      rule_id == IF existing_rules /= <<>> THEN existing_rules[1].id ELSE r1.id
      d2 == delete_filters_for_rule(be, r1.db, rule_id).db
      r3 == create_filter(be, d2,
              [forwarding_id |-> rule_id,
               criteria |-> user.filter[1].criteria,
               action |-> user.filter[1].action,
               created_at |-> user.filter[1].created_at])
      \* `if not rule.has_forwarding_filters`: rule is the object returned
      \* by update_rule / create_rule, carrying the record's flag
      r4 == IF ~rule_data.has_forwarding_filters
            THEN update_rule(be, r3.db, rule_id, [has_forwarding_filters |-> TRUE])
            ELSE r3
  IN IF r1.res /= "ok" THEN Result(db, r1.res, 0)
     ELSE IF user.filter = <<>> THEN Result(d2, "ok", rule_id)
     ELSE IF r3.res /= "ok" THEN Result(d2, r3.res, 0)
     ELSE IF r4.res /= "ok" THEN Result(r3.db, r4.res, 0)
     ELSE Result(r4.db, "ok", rule_id)

\* the importer that goes with a backend
store_record(be, db, user) ==
  IF be = "django" THEN Final_store_record(be, db, user)
  ELSE Legacy_store_record(be, db, user, be)

\* store_autoforwarding_data: for user in user_data; an exception ends the
\* loop and leaves what earlier records wrote
RECURSIVE store_autoforwarding_data(_, _, _)
store_autoforwarding_data(be, db, user_data) ==
  IF user_data = <<>> THEN Result(db, "ok", 0)
  ELSE LET r == store_record(be, db, Head(user_data))
       IN IF r.res /= "ok" THEN r
          ELSE store_autoforwarding_data(be, r.db, Tail(user_data))

(* ------------------------------- API ----------------------------------- *)
\* a faulty DELETE /rules/{rule_id} that leaves the filters to delete_rule
api_delete_rule_keeps_filters(be, db, id, ff) ==
  IF get_rule_by_id(db, id) = <<>> THEN Result(db, "404", id)
  ELSE LET r2 == delete_rule(be, db, id, ff)
       IN Result(r2.db, IF r2.res = "True" THEN "204" ELSE "500", id)

\* DELETE /rules/{rule_id}: 404 when get_rule_by_id finds nothing; else the
\* rule's filters are deleted, then the rule; 500 when delete_rule says False
api_delete_rule(be, db, id, ff) ==
  IF get_rule_by_id(db, id) = <<>> THEN Result(db, "404", id)
  ELSE LET d1 == delete_filters_for_rule(be, db, id).db
           r2 == delete_rule(be, d1, id, ff)
       IN Result(r2.db, IF r2.res = "True" THEN "204" ELSE "500", id)

\* PUT /rules/{rule_id}/investigation. note is update.investigation_note
\* (None when the body omits it). Assignment 3 main.py raises
\* HTTPException(404) inside its `try`, and its `except Exception` turns
\* that into HTTPException(500); Assignment 5 api.py returns the 404
\* response. A note that is None makes no update.
api_update_investigation_note(be, db, id, note) ==
  IF get_rule_by_id(db, id) = <<>>
  THEN Result(db, IF be = "django" THEN "404" ELSE "500", id)
  ELSE IF note = None THEN Result(db, "200", id)
  ELSE LET r == update_rule(be, db, id, [investigation_note |-> note])
       IN Result(r.db, IF r.res = "ok" THEN "200" ELSE "500", id)

\* a faulty GET /rules/{rule_id}/filter that answers with the first stored
\* filter, whichever rule owns it
api_get_rule_filter_any(db, id) ==
  IF get_rule_by_id(db, id) = <<>> THEN [res |-> "404", body |-> <<>>]
  ELSE IF db.filters = <<>> THEN [res |-> "404", body |-> <<>>]
  ELSE [res |-> "200", body |-> <<db.filters[1]>>]

\* GET /rules/{rule_id}/filter (Assignment 5 api.py): 404 when the rule is
\* not found, 404 when get_filters_for_rule is empty, else the first filter
api_get_rule_filter(db, id) ==
  IF get_rule_by_id(db, id) = <<>> THEN [res |-> "404", body |-> <<>>]
  ELSE IF get_filters_for_rule(db, id) = <<>> THEN [res |-> "404", body |-> <<>>]
  ELSE [res |-> "200", body |-> <<get_filters_for_rule(db, id)[1]>>]

(* ----------------------------- inputs ---------------------------------- *)
\* the scalar fields of a rule: all optional fields absent, or all present
RuleScalars ==
  {[name |-> "n1", forwarding_email |-> None, disposition |-> None,
    error |-> None, investigation_note |-> None],
   [name |-> "n2", forwarding_email |-> "f@x", disposition |-> "keep",
    error |-> "denied", investigation_note |-> "note"]}

\* the rule / rule_data given to create_rule
RuleInputs ==
  {[email |-> e, name |-> p.name, forwarding_email |-> p.forwarding_email,
    disposition |-> p.disposition, has_forwarding_filters |-> b,
    error |-> p.error, investigation_note |-> p.investigation_note] :
     e \in Emails, p \in RuleScalars, b \in BOOLEAN}

\* the updates dict given to update_rule; "severity" is not a field of a rule
UpdateInputs ==
  {[investigation_note |-> "note"], [severity |-> "high"]}
  \cup {[has_forwarding_filters |-> b] : b \in BOOLEAN}
  \cup {[email |-> e] : e \in Emails}

\* the email given to search_rules: absent (""), stored addresses, parts of
\* them, text that occurs in no address
SearchEmails == {"", "u1", "U1", "1", "zz", "u_"}

\* rule ids given by callers: 0, every id a rule can have
RuleIdArgs == 0..MaxRuleId

LegacyFilterItems ==
  {[emailAddress |-> "a@f", createdAt |-> None],
   [emailAddress |-> "b@f", createdAt |-> "2024-01-15"]}

FilterItems ==
  {[criteria |-> [from |-> "a@b.com"], action |-> [forward |-> "c@d.com"],
    created_at |-> None],
   [criteria |-> [subject |-> "invoice"], action |-> [addLabels |-> "TRASH"],
    created_at |-> "2024-02-02"]}

\* the filter / filter_data given to create_filter
FilterInputs(be) ==
  IF be = "django"
  THEN {[forwarding_id |-> i, criteria |-> f.criteria, action |-> f.action,
         created_at |-> f.created_at] :
          i \in RuleIdArgs \cup {NoId}, f \in FilterItems}
  ELSE {[forwarding_id |-> i, email_address |-> f.emailAddress,
         created_at |-> f.createdAt] : i \in RuleIdArgs, f \in LegacyFilterItems}

\* Assignment 3 user records: forwarding disabled and no filters, or
\* forwarding enabled and two filters
LegacyUsers ==
  {[email |-> e, name |-> "n1",
    autoForwarding |-> [enabled |-> FALSE, emailAddress |-> "f@x", disposition |-> None],
    forwardingFilters |-> <<>>, error |-> "denied", investigation_note |-> None] :
     e \in Emails}
  \cup
  {[email |-> e, name |-> "n2",
    autoForwarding |-> [enabled |-> TRUE, emailAddress |-> "f@x", disposition |-> "keep"],
    forwardingFilters |-> <<[emailAddress |-> "b@f", createdAt |-> "2024-01-15"],
                            [emailAddress |-> "a@f", createdAt |-> None]>>,
    error |-> None, investigation_note |-> "note"] :
     e \in Emails}

\* Final user records: no filter while has_forwarding_filters is True, or a
\* filter while has_forwarding_filters is False
FinalUsers ==
  {[email |-> e, name |-> "n1", forwarding_email |-> None, disposition |-> None,
    has_forwarding_filters |-> TRUE, error |-> "denied",
    investigation_note |-> None, filter |-> <<>>] : e \in Emails}
  \cup
  {[email |-> e, name |-> "n2", forwarding_email |-> "f@x", disposition |-> "keep",
    has_forwarding_filters |-> FALSE, error |-> None,
    investigation_note |-> "note",
    filter |-> <<[criteria |-> [from |-> "a@b.com"], action |-> [forward |-> "c@d.com"],
                  created_at |-> None]>>] :
     e \in Emails}

Users(be) == IF be = "django" THEN FinalUsers ELSE LegacyUsers

\* the user_data lists given to store_autoforwarding_data
UserLists(be) ==
  UNION {[1..n -> Users(be)] : n \in 1..MaxRecords}

(* ------------------------------ Init ----------------------------------- *)
NoCall == [op |-> "none", id |-> 0, res |-> "ok", arg |-> <<>>]

Init ==
  /\ backend \in Backends
  /\ filters_file \in (IF backend = "csv" THEN FiltersFiles ELSE {DefaultFiltersFile})
  /\ rules = <<>>
  /\ filters = <<>>
  /\ next_rule_id = 1
  /\ next_filter_id = 1
  /\ last = NoCall
  /\ calls = 0
  /\ stores = <<>>
  /\ outcomes = <<>>
  /\ procs = <<>>
  /\ queue = <<>>
  /\ jobs = <<>>
  /\ files = <<>>
  /\ clock = 0

(* ----------------------------- actions --------------------------------- *)
\* the ids handed out stay within the bounds of the model
WithinBounds(db) ==
  /\ \A i \in DOMAIN db.rules : db.rules[i].id <= MaxRuleId
  /\ \A i \in DOMAIN db.filters : db.filters[i].id <= MaxFilterId
  /\ db.next_rule_id <= MaxRuleId + 1
  /\ db.next_filter_id <= MaxFilterId + 1

\* the store contents after a call, and the record of the call
Commit(r, op, id, arg) ==
  /\ calls < MaxCalls
  /\ WithinBounds(r.db)
  /\ calls' = calls + 1
  /\ rules' = r.db.rules
  /\ filters' = r.db.filters
  /\ next_rule_id' = r.db.next_rule_id
  /\ next_filter_id' = r.db.next_filter_id
  /\ last' = [op |-> op, id |-> id, res |-> r.res, arg |-> arg]
  /\ UNCHANGED <<backend, filters_file, stores, outcomes, procs,
                 queue, jobs, files, clock>>

CreateRule ==
  \E d \in RuleInputs :
    LET r == create_rule(backend, Db, d) IN Commit(r, "create_rule", r.id, d)

UpdateRule ==
  \E id \in RuleIdArgs, u \in UpdateInputs :
    Commit(update_rule(backend, Db, id, u), "update_rule", id, u)

DeleteRule ==
  \E id \in RuleIdArgs :
    Commit(delete_rule(backend, Db, id, filters_file), "delete_rule", id, <<>>)

CreateFilter ==
  \E fd \in FilterInputs(backend) :
    Commit(create_filter(backend, Db, fd), "create_filter", fd.forwarding_id, fd)

DeleteFiltersForRule ==
  \E id \in RuleIdArgs :
    Commit(delete_filters_for_rule(backend, Db, id),
           "delete_filters_for_rule", id, <<>>)

ApiDeleteRule ==
  \E id \in RuleIdArgs :
    Commit(api_delete_rule(backend, Db, id, filters_file),
           "api_delete_rule", id, <<>>)

ApiUpdateInvestigationNote ==
  \E id \in RuleIdArgs, note \in {"checked", None} :
    Commit(api_update_investigation_note(backend, Db, id, note),
           "api_update_investigation_note", id, note)

ImportAll ==
  \E user_data \in UserLists(backend) :
    Commit(store_autoforwarding_data(backend, Db, user_data),
           "store_autoforwarding_data", 0, user_data)

Next ==
  \/ CreateRule
  \/ UpdateRule
  \/ DeleteRule
  \/ CreateFilter
  \/ DeleteFiltersForRule
  \/ ImportAll
  \/ ApiDeleteRule
  \/ ApiUpdateInvestigationNote

Spec == Init /\ [][Next]_vars

(* ------------------------- observation helpers ------------------------- *)
\* RuleStore.getById on the current store
RuleOf(id) == rules[RuleIndex(rules, id)]

\* the last call was `op` and returned normally
Returned(op) == last.op = op /\ last.res = "ok"

\* a filter without its own identifier
FilterContent(f) == [k \in (DOMAIN f) \ {"id"} |-> f[k]]

\* per owning rule id, the contents of its filters in storage order
FiltersView(db) ==
  [id \in {db.filters[i].forwarding_id : i \in DOMAIN db.filters} |->
     LET fs == FiltersOf(db.filters, id)
     IN [i \in DOMAIN fs |-> FilterContent(fs[i])]]

(* ------------------------------- C1 ------------------------------------ *)
\* C1: after FilterStore.create(ruleId, ...) succeeded for an existing rule,
\* the rule's has_forwarding_filters is true; after
\* FilterStore.deleteForRule(ruleId) it is false -- in every backend.
C1_FlagSetByFilterCalls ==
  /\ ( /\ Returned("create_filter")
       /\ HasRule(rules, last.id) )
     => RuleOf(last.id).has_forwarding_filters
  /\ ( /\ last.op = "delete_filters_for_rule"
       /\ HasRule(rules, last.id) )
     => ~RuleOf(last.id).has_forwarding_filters

(* ------------------------------- C2 ------------------------------------ *)
\* C2: in every reachable state each stored rule's has_forwarding_filters
\* equals whether a filter currently exists for that rule.
C2_FlagEqualsFilterExists ==
  \A i \in DOMAIN rules :
    rules[i].has_forwarding_filters = (FiltersOf(filters, rules[i].id) /= <<>>)

(* ------------------------------- C3 ------------------------------------ *)
\* C3: RuleStore.create with an email that already belongs to a stored rule
\* fails, and the stored rules are exactly what they were before the call.
C3_DuplicateEmailRejected ==
  [][ ( /\ last'.op = "create_rule"
        /\ calls' = calls + 1
        /\ \E i \in DOMAIN rules : rules[i].email = last'.arg.email )
      => ( /\ last'.res = "IntegrityError"
           /\ rules' = rules ) ]_vars

(* ------------------------------- C4 ------------------------------------ *)
\* C4: in every reachable state no two stored rules have the same email.
C4_EmailsUnique ==
  \A i, j \in DOMAIN rules : rules[i].email = rules[j].email => i = j

(* ------------------------------- C5 ------------------------------------ *)
\* C5: every rule has at most one filter, and FilterStore.create for a rule
\* that already has a filter succeeds and leaves getForRule returning exactly
\* the newly supplied filter.
C5_CreateReplacesFilter ==
  /\ [](\A i \in DOMAIN rules : Len(FiltersOf(filters, rules[i].id)) <= 1)
  /\ [][ ( /\ last'.op = "create_filter"
           /\ calls' = calls + 1
           /\ HasRule(rules, last'.id)
           /\ FiltersOf(filters, last'.id) /= <<>> )
         => ( /\ last'.res = "ok"
              /\ Len(FiltersOf(filters', last'.id)) = 1
              /\ FilterContent(FiltersOf(filters', last'.id)[1]) = last'.arg ) ]_vars

(* ------------------------------- C6 ------------------------------------ *)
\* C6: FilterStore.create with a ruleId that resolves to no stored rule
\* (an absent or zero id included) fails with UnknownRule -- the ValueError
\* "Forwarding rule with ID ... does not exist" -- and leaves the filters and
\* every rule unchanged.
C6_UnknownRuleRejected ==
  [][ ( /\ last'.op = "create_filter"
        /\ calls' = calls + 1
        /\ ~HasRule(rules, last'.id) )
      => ( /\ last'.res = "ValueError"
           /\ filters' = filters
           /\ rules' = rules ) ]_vars

(* ------------------------------- C7 ------------------------------------ *)
\* C7: in every reachable state every stored filter's owning rule identifier
\* refers to a rule that currently exists.
C7_FilterOwnerExists ==
  \A i \in DOMAIN filters : HasRule(rules, filters[i].forwarding_id)

(* ------------------------------- C8 ------------------------------------ *)
\* C8: running importAll a second time with the same records leaves the same
\* state as the first run: same rules (identifiers and field values, in the
\* same order) and the same filter contents per rule.
C8_ImportIdempotent ==
  Returned("store_autoforwarding_data")
  => LET again == store_autoforwarding_data(backend, Db, last.arg)
     IN /\ again.res = "ok"
        /\ again.db.rules = rules
        /\ FiltersView(again.db) = FiltersView(Db)

(* ------------------------------- C9 ------------------------------------ *)
\* C9: when no stored rule has exactly the record's email, importing the
\* record creates a new rule and leaves every existing rule unchanged.
C9_ImportMatchesExactEmail ==
  [][ ( /\ last'.op = "store_autoforwarding_data"
        /\ calls' = calls + 1
        /\ Len(last'.arg) = 1
        /\ \A i \in DOMAIN rules : rules[i].email /= last'.arg[1].email )
      => ( /\ last'.res = "ok"
           /\ Len(rules') = Len(rules) + 1
           /\ SubSeq(rules', 1, Len(rules)) = rules
           /\ rules'[Len(rules')].email = last'.arg[1].email ) ]_vars

(* ------------------------------- C10 ----------------------------------- *)
\* the filters a user record supplies, as create_filter stores them for rule id
SuppliedFilters(be, user, id) ==
  IF be = "django"
  THEN [i \in DOMAIN user.filter |->
          [forwarding_id |-> id, criteria |-> user.filter[i].criteria,
           action |-> user.filter[i].action,
           created_at |-> user.filter[i].created_at]]
  ELSE [i \in DOMAIN user.forwardingFilters |->
          [forwarding_id |-> id,
           email_address |-> user.forwardingFilters[i].emailAddress,
           created_at |-> IF be = "csv"
                          THEN CsvCell(user.forwardingFilters[i].createdAt)
                          ELSE user.forwardingFilters[i].createdAt]]

\* position of the first stored rule with this email
FirstWithEmail(email) == CHOOSE i \in DOMAIN rules :
  rules[i].email = email /\ \A j \in 1..(i - 1) : rules[j].email /= email

C12_ApiDeleteRule ==
  [][ ( /\ last'.op = "api_delete_rule"
        /\ calls' = calls + 1 )
      => IF HasRule(rules, last'.id)
         THEN /\ last'.res = "204"
              /\ get_rule_by_id([rules |-> rules'], last'.id) = <<>>
              /\ FiltersOf(filters', last'.id) = <<>>
              /\ Len(rules') = Len(rules) - 1
              /\ rules' = WithoutRule(rules, last'.id)
              /\ filters' = WithoutFiltersOf(filters, last'.id)
         ELSE /\ last'.res = "404"
              /\ rules' = rules
              /\ filters' = filters ]_vars

\* one import stored two rules with a filter each; the API then deleted the
\* first rule, and the second rule and its filter are still stored
C12_Witness ==
  /\ last.op = "api_delete_rule"
  /\ last.res = "204"
  /\ last.id = 1
  /\ Len(rules) = 1
  /\ rules[1].id = 2
  /\ Len(filters) >= 1
  /\ \A i \in DOMAIN filters : filters[i].forwarding_id = 2

C15_ApiUpdateNote ==
  [][ ( /\ last'.op = "api_update_investigation_note"
        /\ calls' = calls + 1 )
      => IF ~HasRule(rules, last'.id)
         THEN last'.res = "404" /\ rules' = rules /\ filters' = filters
         ELSE /\ last'.res = "200"
              /\ last'.arg /= None =>
                   get_rule_by_id([rules |-> rules'], last'.id)[1].investigation_note
                     = last'.arg ]_vars

(* ------------------------------- C16 ----------------------------------- *)
\* C16: a RuleStore or FilterStore call that fails (raises) leaves the
\* persisted state exactly as it was before the call: the rules and filters
\* stored before are all still readable afterwards.
C16_FailureRollsBack ==
  [][ ( /\ last'.op \in {"create_rule", "update_rule", "delete_rule",
                         "create_filter", "delete_filters_for_rule"}
        /\ calls' = calls + 1
        /\ last'.res \in {"ValueError", "IntegrityError"} )
      => ( /\ rules' = rules
           /\ filters' = filters ) ]_vars

(* ------------------------------- C17 ----------------------------------- *)
\* C17: RuleStore.search(emailSubstring, hasFilters) returns exactly the
\* stored rules whose email contains emailSubstring case-insensitively (when
\* given) and whose has_forwarding_filters equals hasFilters (when given), in
\* storage order; a search matching nothing returns the empty sequence.
C17_SearchExact ==
  backend \in Backends =>
    \A e \in SearchEmails, hf \in {"None", "True", "False"} :
      search_rules(backend, Db, e, hf)
        = SelectSeq(rules, LAMBDA r :
            /\ e = "" \/ Contains(Lower(r.email), Lower(e))
            /\ hf = "None" \/ r.has_forwarding_filters = (hf = "True"))

(* ------------------------------- C18 ----------------------------------- *)
\* C18: RuleStore.list(offset, limit) never raises, for any integer offset
\* and limit, and returns the stored rules in creation order restricted to
\* positions offset..offset+limit-1; a negative offset or limit yields the
\* empty sequence or the sequence for the value clamped to 0, never rules
\* taken from the other end of the collection.
C18_ListWindow ==
  backend \in Backends =>
    \A skip \in {-1, 0, 1, 2, 3}, limit \in {-1, 0, 1, 2, 100} :
      LET got == get_all_rules(backend, Db, skip, limit)
          from == IF skip < 0 THEN 0 ELSE skip
          count == IF limit < 0 THEN 0 ELSE limit
          to == IF from + count > Len(rules) THEN Len(rules) ELSE from + count
      IN /\ got.res = "ok"
         /\ \/ got.rows = SubSeq(rules, from + 1, to)
            \/ (skip < 0 \/ limit < 0) /\ got.rows = <<>>

(* ------------------------------- C19 ----------------------------------- *)
\* C19: statistics() returns total_rules = number of stored rules,
\* active_forwarding = number of rules with a non-empty forwarding_email,
\* rules_with_filters = number of rules whose has_forwarding_filters is true,
\* rules_with_errors = number of rules with a non-empty error, and
\* total_filters = number of filters held by the FilterStore that was
\* configured together with this RuleStore.
C19_Statistics ==
  backend \in Backends =>
    get_statistics(backend, Db, filters_file)
      = [total_rules |-> Len(rules),
         active_forwarding |->
           Cardinality({i \in DOMAIN rules : rules[i].forwarding_email \notin {None, ""}}),
         rules_with_filters |->
           Cardinality({i \in DOMAIN rules : rules[i].has_forwarding_filters}),
         rules_with_errors |->
           Cardinality({i \in DOMAIN rules : rules[i].error \notin {None, ""}}),
         total_filters |-> Len(filters)]

(* ------------------------------- C20 ----------------------------------- *)
\* C20: in every backend, creating a rule with a fresh email succeeds and
\* getById with the returned identifier yields a rule whose email, name,
\* forwarding_email, disposition, has_forwarding_filters, error and
\* investigation_note equal the values given to create; an absent optional
\* field stays absent.
C20_CreateThenGet ==
  [][ ( /\ last'.op = "create_rule"
        /\ calls' = calls + 1
        /\ \A i \in DOMAIN rules : rules[i].email /= last'.arg.email )
      => /\ last'.res = "ok"
         /\ LET got == get_rule_by_id([rules |-> rules'], last'.id)
            IN /\ got /= <<>>
               /\ \A k \in Columns \ {"id"} : got[1][k] = last'.arg[k] ]_vars

(* ------------------------------- C21 ----------------------------------- *)
\* C21: FilterStore.deleteForRule(ruleId) returns true exactly when a filter
\* for that rule existed before the call (false when none existed or the rule
\* is unknown) and removes only that rule's filters, leaving the filters of
\* all other rules unchanged.
C21_DeleteForRuleResult ==
  [][ ( /\ last'.op = "delete_filters_for_rule"
        /\ calls' = calls + 1 )
      => ( /\ last'.res = (IF FiltersOf(filters, last'.id) /= <<>>
                           THEN "True" ELSE "False")
           /\ filters' = WithoutFiltersOf(filters, last'.id) ) ]_vars

(* ------------------------------- C22 ----------------------------------- *)
\* C22: FilterStore.getForRule returns the rule's filter or an empty result,
\* never an error, and the API get-filter-for-rule operation answers 200 with
\* a stored filter whose owning rule identifier is the requested id when the
\* rule exists and has a filter, and 404 both when the rule does not exist
\* and when it exists without a filter.
C22_ApiGetRuleFilter ==
  backend = "django" =>
    \A id \in RuleIdArgs :
      LET got == api_get_rule_filter(Db, id)
          mine == {i \in DOMAIN filters : filters[i].forwarding_id = id}
      IN /\ Len(get_filters_for_rule(Db, id)) = Cardinality(mine)
         /\ IF HasRule(rules, id) /\ mine /= {}
            THEN /\ got.res = "200"
                 /\ got.body[1].forwarding_id = id
                 /\ \E i \in mine : filters[i] = got.body[1]
            ELSE got.res = "404" /\ got.body = <<>>

\* the three answers at once: rule 1 has a filter, rule 2 has none, and a
\* third identifier is not stored
C22_Witness ==
  /\ backend = "django"
  /\ api_get_rule_filter(Db, 1).res = "200"
  /\ HasRule(rules, 2)
  /\ api_get_rule_filter(Db, 2).res = "404"
  /\ ~HasRule(rules, 0)
  /\ api_get_rule_filter(Db, 0).res = "404"

(* ------------------------------- C23 ----------------------------------- *)
\* C23: RuleStore.delete(id) does not itself delete filters: in every
\* backend the FilterStore holds the same filters before and after a
\* RuleStore.delete call.
C23_DeleteRuleKeepsFilters ==
  [][ ( /\ last'.op = "delete_rule"
        /\ calls' = calls + 1 )
      => filters' = filters ]_vars

(* ------------------------------- C30 ----------------------------------- *)
\* C30: in every state reached through the store operations and the
\* importer, between calls, get_statistics reports rules_with_filters equal
\* to total_filters: each filter belongs to exactly one flagged rule and each
\* flagged rule has exactly one filter.
C30_FlaggedRulesEqualFilters ==
  backend \in Backends =>
    LET stats == get_statistics(backend, Db, filters_file)
    IN stats.rules_with_filters = stats.total_filters

(* ------------------ lockstep run of the three backends ----------------- *)
\* the backends create_repositories of Assignment 3 can build
LegacyBackends == {"sqlmodel", "csv", "memory"}

EmptyDb == [rules |-> <<>>, filters |-> <<>>, next_rule_id |-> 1, next_filter_id |-> 1]

\* three freshly created repository pairs, one per repo_type
InitEquiv ==
  /\ backend = "lockstep"
  /\ filters_file \in FiltersFiles
  /\ rules = <<>>
  /\ filters = <<>>
  /\ next_rule_id = 1
  /\ next_filter_id = 1
  /\ last = NoCall
  /\ calls = 0
  /\ stores = [be \in LegacyBackends |-> EmptyDb]
  /\ outcomes = [be \in LegacyBackends |-> [res |-> "ok", id |-> 0]]
  /\ procs = <<>>
  /\ queue = <<>>
  /\ jobs = <<>>
  /\ files = <<>>
  /\ clock = 0

\* the same call made on each backend: r[be] is its Result there
CommitAll(r, op, arg) ==
  /\ calls < MaxCalls
  /\ \A be \in LegacyBackends : WithinBounds(r[be].db)
  /\ calls' = calls + 1
  /\ stores' = [be \in LegacyBackends |-> r[be].db]
  /\ outcomes' = [be \in LegacyBackends |-> [res |-> r[be].res, id |-> r[be].id]]
  /\ last' = [op |-> op, id |-> 0, res |-> "ok", arg |-> arg]
  /\ UNCHANGED <<backend, filters_file, rules, filters, next_rule_id,
                 next_filter_id, procs, queue, jobs, files, clock>>

EquivCreateRule ==
  \E d \in RuleInputs :
    CommitAll([be \in LegacyBackends |-> create_rule(be, stores[be], d)],
              "create_rule", d)

EquivUpdateRule ==
  \E id \in RuleIdArgs, u \in UpdateInputs :
    CommitAll([be \in LegacyBackends |-> update_rule(be, stores[be], id, u)],
              "update_rule", <<id, u>>)

EquivDeleteRule ==
  \E id \in RuleIdArgs :
    CommitAll([be \in LegacyBackends |->
                 delete_rule(be, stores[be], id, filters_file)],
              "delete_rule", <<id>>)

EquivCreateFilter ==
  \E fd \in FilterInputs("sqlmodel") :
    CommitAll([be \in LegacyBackends |-> create_filter(be, stores[be], fd)],
              "create_filter", fd)

EquivDeleteFiltersForRule ==
  \E id \in RuleIdArgs :
    CommitAll([be \in LegacyBackends |->
                 delete_filters_for_rule(be, stores[be], id)],
              "delete_filters_for_rule", <<id>>)

NextEquiv ==
  \/ EquivCreateRule
  \/ EquivUpdateRule
  \/ EquivDeleteRule
  \/ EquivCreateFilter
  \/ EquivDeleteFiltersForRule

SpecEquiv == InitEquiv /\ [][NextEquiv]_vars

\* what a caller can read from a backend: list, getById, search,
\* statistics and getForRule
VisibleState(be) ==
  [list |-> get_all_rules(be, stores[be], 0, 100).rows,
   by_id |-> [id \in RuleIdArgs |-> get_rule_by_id(stores[be], id)],
   search |-> [e \in Emails |-> search_rules(be, stores[be], e, "None")],
   statistics |-> get_statistics(be, stores[be], filters_file),
   for_rule |-> [id \in RuleIdArgs |-> get_filters_for_rule(stores[be], id)]]

(* ------------------------------- C11 ----------------------------------- *)
\* C11: the SQLModel, CSV and in-memory backends are observationally
\* equivalent: after every sequence of RuleStore and FilterStore calls from
\* empty stores, the last call returned the same result in all three and the
\* same rules and filters are visible in all three.
C11_BackendsEquivalent ==
  backend = "lockstep" =>
    \A b1, b2 \in LegacyBackends :
      /\ outcomes[b1] = outcomes[b2]
      /\ VisibleState(b1) = VisibleState(b2)

(* ------------- concurrent calls on the Django repositories ------------- *)
\* Two callers work on rule 1 at the same time: "f" makes one FilterStore
\* call, "u" makes one RuleStore.update call. No call runs in a transaction:
\* each ORM query is a step of its own, and Model.save() writes every field
\* of the instance the caller read earlier.

\* a caller's record: the call, its argument, where it stands, the model
\* instance it holds and what it returned
Caller(op, arg) == [op |-> op, arg |-> arg, pc |-> "get", snap |-> <<>>, res |-> "running"]

\* rule 1 is stored, with or without its filter; both calls are about to start
InitConc ==
  /\ backend = "django"
  /\ filters_file = DefaultFiltersFile
  /\ \E d \in RuleInputs, had \in BOOLEAN, fd \in FilterInputs("django") :
       /\ d.email = "u1"
       /\ fd.forwarding_id = 1
       /\ rules = <<MkRule(1, [d EXCEPT !.has_forwarding_filters = had])>>
       /\ filters = IF had THEN <<MkFilter(1, fd)>> ELSE <<>>
       /\ next_filter_id = IF had THEN 2 ELSE 1
  /\ next_rule_id = 2
  /\ last = NoCall
  /\ calls = 0
  /\ stores = <<>>
  /\ outcomes = <<>>
  /\ queue = <<>>
  /\ jobs = <<>>
  /\ files = <<>>
  /\ clock = 0
  /\ \E fd \in FilterInputs("django"),
        u \in {[investigation_note |-> "changed"], [email |-> "U1"]},
        fop \in {"create_filter", "delete_filters_for_rule"} :
       /\ fd.forwarding_id = 1
       /\ procs = [f |-> Caller(fop, fd), u |-> Caller("update_rule", u)]

\* UPDATE ... WHERE id = 1 with every field of the instance
SaveInstance(inst) == [rules EXCEPT ![RuleIndex(rules, 1)] = inst]

ConcUnchanged == UNCHANGED <<backend, filters_file, next_rule_id, last, calls,
                             stores, outcomes, queue, jobs, files, clock>>

\* update_rule: rule = AutoForwarding.objects.get(id=rule_id)
ConcUpdateGet ==
  /\ procs.u.pc = "get"
  /\ procs' = [procs EXCEPT !.u.snap = get_rule_by_id(Db, 1), !.u.pc = "save"]
  /\ UNCHANGED <<rules, filters, next_filter_id>>
  /\ ConcUnchanged

\* update_rule: setattr for each key; rule.save()
ConcUpdateSave ==
  /\ procs.u.pc = "save"
  /\ rules' = SaveInstance(ApplyUpdates(procs.u.snap[1], procs.u.arg))
  /\ procs' = [procs EXCEPT !.u.pc = "done", !.u.res = "ok"]
  /\ UNCHANGED <<filters, next_filter_id>>
  /\ ConcUnchanged

\* create_filter: forwarding = AutoForwarding.objects.get(id=forwarding_id)
ConcCreateGet ==
  /\ procs.f.op = "create_filter"
  /\ procs.f.pc = "get"
  /\ procs' = [procs EXCEPT !.f.snap = get_rule_by_id(Db, 1), !.f.pc = "insert"]
  /\ UNCHANGED <<rules, filters, next_filter_id>>
  /\ ConcUnchanged

\* create_filter: ForwardingFilter.objects.create(**filter_data); the
\* OneToOneField rejects a second filter for the rule
ConcCreateInsert ==
  /\ procs.f.op = "create_filter"
  /\ procs.f.pc = "insert"
  /\ IF FiltersOf(filters, 1) /= <<>>
     THEN /\ procs' = [procs EXCEPT !.f.pc = "done", !.f.res = "IntegrityError"]
          /\ UNCHANGED <<filters, next_filter_id>>
     ELSE /\ filters' = Append(filters, MkFilter(next_filter_id, procs.f.arg))
          /\ next_filter_id' = next_filter_id + 1
          /\ procs' = [procs EXCEPT !.f.pc = "save"]
  /\ UNCHANGED rules
  /\ ConcUnchanged

\* create_filter: filter.forwarding.has_forwarding_filters = True;
\* filter.forwarding.save() -- the instance read by ConcCreateGet
ConcCreateSave ==
  /\ procs.f.op = "create_filter"
  /\ procs.f.pc = "save"
  /\ rules' = SaveInstance([procs.f.snap[1] EXCEPT !.has_forwarding_filters = TRUE])
  /\ procs' = [procs EXCEPT !.f.pc = "done", !.f.res = "ok"]
  /\ UNCHANGED <<filters, next_filter_id>>
  /\ ConcUnchanged

\* delete_filters_for_rule: filters.count(); filters.delete()
ConcDeleteFilters ==
  /\ procs.f.op = "delete_filters_for_rule"
  /\ procs.f.pc = "get"
  /\ filters' = WithoutFiltersOf(filters, 1)
  /\ procs' = [procs EXCEPT !.f.pc = "get_rule",
         !.f.res = IF FiltersOf(filters, 1) /= <<>> THEN "True" ELSE "False"]
  /\ UNCHANGED <<rules, next_filter_id>>
  /\ ConcUnchanged

\* delete_filters_for_rule: forwarding = AutoForwarding.objects.get(id=rule_id)
ConcDeleteGet ==
  /\ procs.f.op = "delete_filters_for_rule"
  /\ procs.f.pc = "get_rule"
  /\ procs' = [procs EXCEPT !.f.snap = get_rule_by_id(Db, 1), !.f.pc = "save"]
  /\ UNCHANGED <<rules, filters, next_filter_id>>
  /\ ConcUnchanged

\* delete_filters_for_rule: forwarding.has_forwarding_filters = False;
\* forwarding.save()
ConcDeleteSave ==
  /\ procs.f.op = "delete_filters_for_rule"
  /\ procs.f.pc = "save"
  /\ rules' = SaveInstance([procs.f.snap[1] EXCEPT !.has_forwarding_filters = FALSE])
  /\ procs' = [procs EXCEPT !.f.pc = "done"]
  /\ UNCHANGED <<filters, next_filter_id>>
  /\ ConcUnchanged

NextConc ==
  \/ ConcUpdateGet
  \/ ConcUpdateSave
  \/ ConcCreateGet
  \/ ConcCreateInsert
  \/ ConcCreateSave
  \/ ConcDeleteFilters
  \/ ConcDeleteGet
  \/ ConcDeleteSave

SpecConc == InitConc /\ [][NextConc]_vars

(* ------------------------------- C13 ----------------------------------- *)
\* C13: whatever the interleaving of a FilterStore.create or
\* FilterStore.deleteForRule call with a concurrent RuleStore.update on the
\* same rule, once both calls have returned the rule's has_forwarding_filters
\* equals whether a filter exists for it, and every field the update wrote
\* still has the value the update gave it.
C13_FlagWriteAtomic ==
  ( /\ backend = "django"
    /\ procs /= <<>>
    /\ procs.f.pc = "done"
    /\ procs.u.pc = "done" )
  => /\ RuleOf(1).has_forwarding_filters = (FiltersOf(filters, 1) /= <<>>)
     /\ \A k \in DOMAIN procs.u.arg : RuleOf(1)[k] = procs.u.arg[k]

(* ============================ report jobs ============================== *)
(* The report tasks of "Final/forwarding_rules/tasks.py", submitted by the *)
(* report endpoints of "Assignment 5/forwarding_rules/api.py" and run by a *)
(* Celery worker over the Django repositories.                             *)

\* last second the clock reaches in one run
MaxClock == 1
\* number of report requests in one run
MaxSubmits == 2

\* get_all_rules(self, skip: int = 0, limit: int = 100)
DefaultSkip == 0
DefaultLimit == 100

(* --------------------------- text of a report -------------------------- *)
Digits == "0123456789"

\* str(n) / the digits strftime writes for the second n
RECURSIVE Str(_)
Str(n) ==
  IF n < 10 THEN SubSeq(Digits, n + 1, n + 1)
  ELSE Str(n \div 10) \o SubSeq(Digits, (n % 10) + 1, (n % 10) + 1)

\* s.replace(a, b) for one-character a
RECURSIVE Replace(_, _, _)
Replace(s, a, b) ==
  IF Len(s) = 0 THEN s
  ELSE (IF SubSeq(s, 1, 1) = a THEN b ELSE SubSeq(s, 1, 1))
         \o Replace(SubSeq(s, 2, Len(s)), a, b)

\* Python `v or d`
OrElse(v, d) == IF Truthy(v) THEN v ELSE d

\* datetime.now().strftime("%Y%m%d_%H%M%S"): one text per second
strftime(now) == Str(now)

\* json.dumps(obj, indent=2): the text of the object
json_dumps(obj) == [json |-> obj]

\* settings.REPORTS_DIR
ReportsDir == "reports"

\* os.path.join(settings.REPORTS_DIR, report_name)
path_join(dir, name) == dir \o "/" \o name

\* _create_report_base: the file name falls back to the title and the
\* second of the call; the document starts with the title and the time
create_report_base(report_name, title_text, now) ==
  LET name == IF ~Truthy(report_name)
              THEN Replace(Lower(title_text), " ", "_") \o "_"
                     \o strftime(now) \o ".pdf"
              ELSE report_name
  IN [report_path |-> path_join(ReportsDir, name),
      title |-> title_text, generated |-> now]

\* _add_statistics_section: the table of rule_repo.get_statistics(), one row
\* per key with str(value)
add_statistics_section(db) ==
  LET stats == get_statistics("django", db, DefaultFiltersFile)
  IN [k \in DOMAIN stats |-> Str(stats[k])]

\* the filter table of one filter
filter_table(f) ==
  [filter_id |-> Str(f.id), created_at |-> OrElse(f.created_at, "Unknown"),
   criteria |-> json_dumps(f.criteria), action |-> json_dumps(f.action)]

\* _add_rules_section: per rule the header, the attribute table and, `if
\* include_filters and rule.has_forwarding_filters`, the tables of
\* filter_repo.get_filters_for_rule(rule.id) (none when that list is empty)
add_rules_section(rs, db, include_filters) ==
  [i \in DOMAIN rs |->
     [rule_id |-> rs[i].id,
      email |-> rs[i].email,
      name |-> rs[i].name,
      forwarding_email |-> OrElse(rs[i].forwarding_email, "None"),
      disposition |-> OrElse(rs[i].disposition, "None"),
      has_filters |-> IF rs[i].has_forwarding_filters THEN "Yes" ELSE "No",
      error |-> OrElse(rs[i].error, "None"),
      investigation_note |-> OrElse(rs[i].investigation_note, "None"),
      filter_tables |->
        IF include_filters /\ rs[i].has_forwarding_filters
        THEN LET fs == get_filters_for_rule(db, rs[i].id)
             IN [k \in DOMAIN fs |-> filter_table(fs[k])]
        ELSE <<>>]]

\* what a task hands to doc.build, and where
Report(base, statistics, rule_sections, closing) ==
  [report_path |-> base.report_path,
   elements |-> [title |-> base.title, generated |-> base.generated,
                 statistics |-> statistics, rule_sections |-> rule_sections,
                 closing |-> closing]]

\* generate_rules_report up to doc.build
generate_rules_report(db, report_name, now) ==
  LET rs == get_all_rules("django", db, DefaultSkip, DefaultLimit).rows
      base == create_report_base(report_name,
                                 "Email Forwarding Rules Audit Report", now)
  IN Report(base, <<add_statistics_section(db)>>,
            add_rules_section(rs, db, TRUE), None)

\* generate_stats_report up to doc.build
generate_stats_report(db, report_name, now) ==
  LET name == IF ~Truthy(report_name)
              THEN "stats_report_" \o strftime(now) \o ".pdf"
              ELSE report_name
      base == create_report_base(name,
                                 "Email Forwarding Rules Statistics Report", now)
  IN Report(base, <<add_statistics_section(db)>>, <<>>, "summary")

\* generate_rules_only_report up to doc.build
generate_rules_only_report(db, report_name, now) ==
  LET rs == get_all_rules("django", db, DefaultSkip, DefaultLimit).rows
      name == IF ~Truthy(report_name)
              THEN "rules_only_report_" \o strftime(now) \o ".pdf"
              ELSE report_name
      base == create_report_base(name, "Email Forwarding Rules Only Report", now)
  IN Report(base, <<>>, add_rules_section(rs, db, FALSE), "note")

Tasks == {"generate_rules_report", "generate_stats_report",
          "generate_rules_only_report"}

\* the task a message names
run_task(task, db, report_name, now) ==
  CASE task = "generate_rules_report" -> generate_rules_report(db, report_name, now)
    [] task = "generate_stats_report" -> generate_stats_report(db, report_name, now)
    [] task = "generate_rules_only_report" ->
         generate_rules_only_report(db, report_name, now)

(* --------------------------- report endpoints -------------------------- *)
\* task.delay(report_name): one message for the worker, with a fresh task id
delay(q, task, report_name, id) ==
  Append(q, [id |-> id, task |-> task, report_name |-> report_name])

\* POST /reports/generate
generate_full_report_api(q, report_name, id) ==
  [queue |-> delay(q, "generate_rules_report", report_name, id),
   res |-> "200", task_id |-> id]

\* a faulty statistics endpoint that starts the full report and drops the
\* report name
generate_stats_report_api_full(q, report_name, id) ==
  [queue |-> delay(q, "generate_rules_report", None, id),
   res |-> "200", task_id |-> id]

\* POST /reports/stats
generate_stats_report_api(q, report_name, id) ==
  [queue |-> delay(q, "generate_stats_report", report_name, id),
   res |-> "200", task_id |-> id]

\* POST /reports/rules-only
generate_rules_only_report_api(q, report_name, id) ==
  [queue |-> delay(q, "generate_rules_only_report", report_name, id),
   res |-> "200", task_id |-> id]

(* ----------------------- the store a report reads ---------------------- *)
\* rule_data of the rules in the stores below
ReportRuleData(email, flag) ==
  [email |-> email, name |-> "n1", forwarding_email |-> "f@x",
   disposition |-> None, has_forwarding_filters |-> flag, error |-> None,
   investigation_note |-> None]

ReportFilterData(rule_id) ==
  [forwarding_id |-> rule_id, criteria |-> [from |-> "a@b.com"],
   action |-> [forward |-> "c@d.com"], created_at |-> None]

\* the store after n calls of create_rule with the emails user1 .. user<n>
\* on an empty database: the i-th call appends MkRule(i, rule_data) and
\* moves the id sequence to i + 1
ManyRules(n) ==
  [rules |-> [i \in 1..n |-> MkRule(i, ReportRuleData("user" \o Str(i), FALSE))],
   filters |-> <<>>, next_rule_id |-> n + 1, next_filter_id |-> 1]

\* create_rule with has_forwarding_filters = True and no create_filter
FlaggedWithoutFilter ==
  Django_create_rule(EmptyDb, ReportRuleData("u1", TRUE)).db

\* two rules, create_filter for the second
OneFilter ==
  Django_create_filter(ManyRules(2), ReportFilterData(2)).db

\* create_rule, create_filter, then update_rule(1, {has_forwarding_filters: False})
FilterWithoutFlag ==
  Django_update_rule(Django_create_filter(ManyRules(1), ReportFilterData(1)).db,
                     1, [has_forwarding_filters |-> FALSE]).db

\* the stores a report run may find: empty, small ones, and one rule more
\* than the default limit of get_all_rules
ReportStores ==
  {EmptyDb, FlaggedWithoutFilter, OneFilter, FilterWithoutFlag,
   ManyRules(DefaultLimit + 1)}

\* report_name of a request: omitted, or given
ReportNames == {None, "custom_report.pdf"}

(* ------------------------------ actions -------------------------------- *)
InitReport ==
  /\ backend = "django"
  /\ filters_file = DefaultFiltersFile
  /\ \E db \in ReportStores :
       /\ rules = db.rules
       /\ filters = db.filters
       /\ next_rule_id = db.next_rule_id
       /\ next_filter_id = db.next_filter_id
  /\ last = NoCall
  /\ calls = 0
  /\ stores = <<>>
  /\ outcomes = <<>>
  /\ procs = <<>>
  /\ queue = <<>>
  /\ jobs = <<>>
  /\ files = <<>>
  /\ clock = 0

ReportStoreUnchanged ==
  UNCHANGED <<backend, filters_file, rules, filters, next_rule_id,
              next_filter_id, stores, outcomes, procs>>

\* the answer of a report endpoint and the message it sent
Submit(r, op, report_name) ==
  /\ calls < MaxSubmits
  /\ calls' = calls + 1
  /\ queue' = r.queue
  /\ last' = [op |-> op, id |-> r.task_id, res |-> r.res, arg |-> report_name]
  /\ UNCHANGED <<jobs, files, clock>>
  /\ ReportStoreUnchanged

GenerateFullReportApi ==
  \E report_name \in ReportNames :
    Submit(generate_full_report_api(queue, report_name, calls + 1),
           "generate_full_report_api", report_name)

GenerateStatsReportApi ==
  \E report_name \in ReportNames :
    Submit(generate_stats_report_api(queue, report_name, calls + 1),
           "generate_stats_report_api", report_name)

GenerateRulesOnlyReportApi ==
  \E report_name \in ReportNames :
    Submit(generate_rules_only_report_api(queue, report_name, calls + 1),
           "generate_rules_only_report_api", report_name)

\* a worker process takes the next message and runs the task up to doc.build:
\* it reads the store and the clock
WorkerStartTask ==
  /\ queue /= <<>>
  /\ LET m == Head(queue)
         r == run_task(m.task, Db, m.report_name, clock)
     IN jobs' = Append(jobs, [id |-> m.id, task |-> m.task,
                              report_name |-> m.report_name,
                              state |-> "STARTED",
                              report_path |-> r.report_path,
                              elements |-> r.elements, result |-> None])
  /\ queue' = Tail(queue)
  /\ UNCHANGED <<last, calls, files, clock>>
  /\ ReportStoreUnchanged

\* the file system after writing content at path
WriteFile(fs, path, content) ==
  [p \in DOMAIN fs \cup {path} |-> IF p = path THEN content ELSE fs[p]]

\* doc.build(elements): the document is laid out and written to report_path,
\* which is opened for writing in place. The task has no handler around it:
\* when the file cannot be opened the exception leaves the directory as it
\* was; when writing stops part-way the opened file stays, cut short.
\* `return report_path` is reached only after a complete write.
WorkerBuild ==
  \E i \in DOMAIN jobs, outcome \in {"written", "open_failed", "write_failed"} :
    /\ jobs[i].state = "STARTED"
    /\ files' =
         CASE outcome = "written" ->
                WriteFile(files, jobs[i].report_path,
                          [complete |-> TRUE, elements |-> jobs[i].elements])
           [] outcome = "open_failed" -> files
           [] outcome = "write_failed" ->
                WriteFile(files, jobs[i].report_path,
                          [complete |-> FALSE, elements |-> <<>>])
    /\ jobs' = [jobs EXCEPT ![i].state =
                              IF outcome = "written" THEN "SUCCESS" ELSE "FAILURE",
                            ![i].result =
                              IF outcome = "written" THEN jobs[i].report_path
                              ELSE "OSError"]
    /\ UNCHANGED <<last, calls, queue, clock>>
    /\ ReportStoreUnchanged

\* a second passes
Tick ==
  /\ clock < MaxClock
  /\ clock' = clock + 1
  /\ UNCHANGED <<last, calls, queue, jobs, files>>
  /\ ReportStoreUnchanged

NextReport ==
  \/ GenerateFullReportApi
  \/ GenerateStatsReportApi
  \/ GenerateRulesOnlyReportApi
  \/ WorkerStartTask
  \/ WorkerBuild
  \/ Tick

SpecReport == InitReport /\ [][NextReport]_vars

(* --------------------------- C24 .. C29 -------------------------------- *)
\* the rule sections a finished task run wrote
Sections(i) == jobs[i].elements.rule_sections

\* C24: for a rule with has_forwarding_filters = true, a rules-only report
\* contains no filter section for that rule and a full report contains a
\* filter section for it.
C24_FlaggedRuleFilterSection ==
  \A i \in DOMAIN jobs :
    jobs[i].state = "SUCCESS" =>
      \A k \in DOMAIN Sections(i) :
        RuleOf(Sections(i)[k].rule_id).has_forwarding_filters =>
          /\ jobs[i].task = "generate_rules_only_report"
               => Sections(i)[k].filter_tables = <<>>
          /\ jobs[i].task = "generate_rules_report"
               => Sections(i)[k].filter_tables /= <<>>

\* C25: with the store left alone, a full report and a rules-only report
\* each contain exactly one section for every stored rule, however many rules
\* there are, so the number of rule sections of a full report equals the
\* total_rules value of its statistics table.
C25_OneSectionPerRule ==
  \A i \in DOMAIN jobs :
    ( /\ jobs[i].state = "SUCCESS"
      /\ jobs[i].task \in {"generate_rules_report", "generate_rules_only_report"} )
    => /\ Len(Sections(i)) = Len(rules)
       /\ \A r \in DOMAIN rules :
            Cardinality({k \in DOMAIN Sections(i) :
                           Sections(i)[k].rule_id = rules[r].id}) = 1
       /\ jobs[i].task = "generate_rules_report"
            => jobs[i].elements.statistics[1].total_rules = Str(Len(Sections(i)))

\* C26: with the store left alone, the full report renders the filter of a
\* rule (criteria and action) exactly when the FilterStore holds a filter for
\* that rule, whatever the stored has_forwarding_filters flag says.
C26_FilterRenderedIffExists ==
  \A i \in DOMAIN jobs :
    (jobs[i].state = "SUCCESS" /\ jobs[i].task = "generate_rules_report") =>
      \A k \in DOMAIN Sections(i) :
        LET fs == get_filters_for_rule(Db, Sections(i)[k].rule_id)
        IN /\ (Sections(i)[k].filter_tables /= <<>>) <=> (fs /= <<>>)
           /\ fs /= <<>> =>
                \A n \in DOMAIN Sections(i)[k].filter_tables :
                  /\ Sections(i)[k].filter_tables[n].criteria.json = fs[n].criteria
                  /\ Sections(i)[k].filter_tables[n].action.json = fs[n].action

\* C27: each report request (full, statistics only, rules only) puts exactly
\* one task message of the matching task on the queue, carrying the report
\* name of the request or None when it was omitted, and answers 200 with the
\* id of that task; it starts no task run and writes no file.
C27_SubmitEnqueuesOneJob ==
  [][ ( /\ calls' = calls + 1
        /\ last'.op \in {"generate_full_report_api", "generate_stats_report_api",
                         "generate_rules_only_report_api"} )
      => /\ Len(queue') = Len(queue) + 1
         /\ SubSeq(queue', 1, Len(queue)) = queue
         /\ queue'[Len(queue')].task =
              (CASE last'.op = "generate_full_report_api" -> "generate_rules_report"
                 [] last'.op = "generate_stats_report_api" -> "generate_stats_report"
                 [] last'.op = "generate_rules_only_report_api" ->
                      "generate_rules_only_report")
         /\ queue'[Len(queue')].report_name = last'.arg
         /\ last'.res = "200"
         /\ last'.id = queue'[Len(queue')].id
         /\ \A k \in DOMAIN queue : queue[k].id /= last'.id
         /\ jobs' = jobs
         /\ files' = files ]_vars

\* a second request, for a named statistics report, answered while the first
\* message is still waiting and nothing has been generated
C27_Witness ==
  /\ calls = 2
  /\ last.op = "generate_stats_report_api"
  /\ last.arg = "custom_report.pdf"
  /\ last.res = "200"
  /\ Len(queue) = 2
  /\ queue[2] = [id |-> last.id, task |-> "generate_stats_report",
                 report_name |-> "custom_report.pdf"]
  /\ jobs = <<>>
  /\ files = <<>>

\* C28: when writing the report document fails, the task run ends as failed
\* and returns no report path, and no partial or corrupt file is at the
\* report path afterwards: a file that was there before the failed run is
\* still there as it was.
C28_FailedWriteLeavesNoPartialFile ==
  [][ \A i \in DOMAIN jobs :
        (jobs[i].state = "STARTED" /\ jobs'[i].state = "FAILURE")
        => LET path == jobs[i].report_path
           IN /\ jobs'[i].result /= path
              /\ path \in DOMAIN files' => files'[path].complete
              /\ path \in DOMAIN files =>
                   (path \in DOMAIN files' /\ files'[path] = files[path]) ]_vars

\* C29: two task runs started without a report name never write to the same
\* path, also when both start within the same second; two runs given the
\* same report name write to the same path.
C29_DefaultPathsDistinct ==
  \A i, j \in DOMAIN jobs :
    i /= j =>
      /\ (~Truthy(jobs[i].report_name) /\ ~Truthy(jobs[j].report_name))
           => jobs[i].report_path /= jobs[j].report_path
      /\ (Truthy(jobs[i].report_name) /\ jobs[i].report_name = jobs[j].report_name)
           => jobs[i].report_path = jobs[j].report_path

====
